---- MODULE Spec2Model ----
(***************************************************************************)
(* Model of package persisted: the operation log (log.go), the persisted   *)
(* LinkedList built on it (llist.go) and the in-memory doubly linked list  *)
(* that backs it.                                                          *)
(*                                                                         *)
(* The file system is modelled at the level the code uses it: inodes hold  *)
(* a sequence of encoded records, the log's path names one inode, an open  *)
(* *os.File keeps its inode whatever the path is renamed to, and rename    *)
(* replaces the path's inode atomically.                                   *)
(***************************************************************************)
EXTENDS Integers, Sequences, FiniteSets, TLC

\* ------------------------------------------------------------------ bounds
\* Nodes the in-memory list may hold at once.
MaxNodes == 3
\* Records a file may hold before a further add is not explored.
MaxFileLen == 3
\* Temporary compaction files that may be left behind at once.
MaxTemps == 1
\* Calls of one LinkedList that may return an error or panic before its
\* holder stops calling Append, Push and Pop on it.
MaxErrors == 1
\* Length of the long string value: one record of it fits the compaction
\* threshold, two do not, and its append record with the push record of an
\* int has exactly the size of the threshold.
BigLen == 7603
\* Values pushed or appended in a row by the scenarios of the list tests.
MaxRun == 2

\* -------------------------------------------------------------- constants
initialCompactionThreshold == 10 * 1024

_append == "__append__"
_push == "__push__"
_pop == "__pop__"

NIL == 0

\* ----------------------------------------------------------------- values
\* A Go interface{} value: its dynamic type t, a number n (the integer, or
\* the length of the string or slice) and, for a slice, its elements e.
NilVal == [t |-> "nil", n |-> 0, e |-> <<>>]
IntVal(k) == [t |-> "int", n |-> k, e |-> <<>>]
FloatVal(k) == [t |-> "float64", n |-> k, e |-> <<>>]
StrVal(len) == [t |-> "string", n |-> len, e |-> <<>>]
ChanVal == [t |-> "chan", n |-> 0, e |-> <<>>]
SliceVal(elems) == [t |-> "slice", n |-> Len(elems), e |-> elems]

\* The values the callers pass to Append and Push.
Values == {NilVal, IntVal(1), StrVal(BigLen), ChanVal}

Min(a, b) == IF a < b THEN a ELSE b
Max(a, b) == IF a < b THEN b ELSE a

RECURSIVE SumSeq(_)
SumSeq(s) == IF s = <<>> THEN 0 ELSE Head(s) + SumSeq(Tail(s))

\* Number of decimal digits of a natural number.
RECURSIVE Digits(_)
Digits(k) == IF k < 10 THEN 1 ELSE 1 + Digits(k \div 10)

\* ------------------------------------------------------------------- JSON
\* A JSON text as json.Marshal writes it: null, a number, a string of n
\* characters, an array of texts; "bad" is a text that is not JSON.
JsonNull == [j |-> "null", n |-> 0, e |-> <<>>]
JsonNum(k) == [j |-> "num", n |-> k, e |-> <<>>]
JsonStr(len) == [j |-> "str", n |-> len, e |-> <<>>]
JsonArr(elems) == [j |-> "arr", n |-> Len(elems), e |-> elems]
JsonBad == [j |-> "bad", n |-> 5, e |-> <<>>]

\* json.Marshal: [err, bytes].  A channel is not marshallable.
RECURSIVE jsonMarshal(_)
jsonMarshal(v) ==
  CASE v.t = "nil" -> [err |-> "nil", bytes |-> JsonNull]
    [] v.t = "int" -> [err |-> "nil", bytes |-> JsonNum(v.n)]
    [] v.t = "float64" -> [err |-> "nil", bytes |-> JsonNum(v.n)]
    [] v.t = "string" -> [err |-> "nil", bytes |-> JsonStr(v.n)]
    [] v.t = "slice" ->
         LET ms == [i \in 1..Len(v.e) |-> jsonMarshal(v.e[i])]
         IN IF \E i \in 1..Len(ms) : ms[i].err # "nil"
              THEN [err |-> "UnsupportedTypeError", bytes |-> JsonBad]
              ELSE [err |-> "nil", bytes |-> JsonArr([i \in 1..Len(ms) |-> ms[i].bytes])]
    [] OTHER -> [err |-> "UnsupportedTypeError", bytes |-> JsonBad]

\* The value json.Unmarshal stores through a *interface{}.
RECURSIVE jsonDecoded(_)
jsonDecoded(b) ==
  CASE b.j = "null" -> NilVal
    [] b.j = "num" -> FloatVal(b.n)
    [] b.j = "str" -> StrVal(b.n)
    [] OTHER -> SliceVal([i \in 1..Len(b.e) |-> jsonDecoded(b.e[i])])

\* What the second argument of json.Unmarshal is.
NilInterface == "nil interface"
PointerToInterface == "*interface{}"

\* json.Unmarshal(data, v): a syntax error for a text that is not JSON, an
\* InvalidUnmarshalError for a v that is not a non-nil pointer, else the
\* decoded value stored through v.
jsonUnmarshal(data, v) ==
  IF data.j = "bad" THEN [err |-> "SyntaxError", val |-> NilVal]
  ELSE IF v # PointerToInterface THEN [err |-> "InvalidUnmarshalError", val |-> NilVal]
  ELSE [err |-> "nil", val |-> jsonDecoded(data)]

\* Bytes of a JSON text.
RECURSIVE JsonLen(_)
JsonLen(b) ==
  CASE b.j = "null" -> 4
    [] b.j = "num" -> Digits(b.n)
    [] b.j = "str" -> b.n + 2
    [] b.j = "arr" ->
         2 + SumSeq([i \in 1..Len(b.e) |-> JsonLen(b.e[i])]) + Max(Len(b.e) - 1, 0)
    [] OTHER -> b.n

\* encoding/json writes a []byte as a base64 string.
B64Len(n) == 4 * ((n + 2) \div 3)

\* ------------------------------------------------------- inMemLinkedList
\* The heap of nodes: node ids 1..MaxNodes, NIL the nil pointer.  A node that
\* neither head nor tail reaches is garbage and is blanked.
NodeIds == 1..MaxNodes
BlankNode == [previous |-> NIL, next |-> NIL, data |-> NilVal]

\* new(inMemLinkedList): the zero value.
NewInMemLinkedList ==
  [head |-> NIL, tail |-> NIL, length |-> 0, nodes |-> [n \in NodeIds |-> BlankNode]]

RECURSIVE Closure(_, _)
Closure(nodes, S) ==
  LET T == (S \cup {nodes[n].next : n \in S} \cup {nodes[n].previous : n \in S}) \ {NIL}
  IN IF T = S THEN S ELSE Closure(nodes, T)

\* The nodes the list still references.
Live(l) == Closure(l.nodes, {l.head, l.tail} \ {NIL})

\* The nodes from n on along the next links, at most fuel of them.
RECURSIVE ChainFrom(_, _, _)
ChainFrom(nodes, n, fuel) ==
  IF n = NIL \/ fuel = 0 THEN <<>>
  ELSE <<n>> \o ChainFrom(nodes, nodes[n].next, fuel - 1)

\* The garbage collector: unreferenced nodes are gone.  A node id stands for
\* an address, which no code reads: when the chain from head holds every
\* referenced node, the nodes are named by their place in it.
Sweep(l) ==
  LET live == Live(l)
      chain == ChainFrom(l.nodes, l.head, MaxNodes)
      name(n) == IF n = NIL THEN NIL ELSE CHOOSE i \in 1..Len(chain) : chain[i] = n
  IN IF {chain[i] : i \in 1..Len(chain)} = live /\ Len(chain) = Cardinality(live)
       THEN [head |-> name(l.head), tail |-> name(l.tail), length |-> l.length,
             nodes |-> [i \in NodeIds |->
                          IF i <= Len(chain)
                            THEN [previous |-> name(l.nodes[chain[i]].previous),
                                  next |-> name(l.nodes[chain[i]].next),
                                  data |-> l.nodes[chain[i]].data]
                            ELSE BlankNode]]
       ELSE [l EXCEPT !.nodes = [n \in NodeIds |->
                                   IF n \in live THEN l.nodes[n] ELSE BlankNode]]

\* new(node) is possible while a node id is free.
CanAlloc(l) == Live(l) # NodeIds
FirstOf(S) == CHOOSE n \in S : \A m \in S : n <= m
NewNode(l) == FirstOf(NodeIds \ Live(l))

\* An append that, for the first element, sets tail and length but not head.
appendKeepsHead(l, newElement) ==
  Sweep(IF l.tail = NIL
          THEN [head |-> l.head, tail |-> NewNode(l), length |-> 1,
                nodes |-> [l.nodes EXCEPT ![NewNode(l)] =
                             [previous |-> NIL, next |-> NIL, data |-> newElement]]]
          ELSE [head |-> l.head, tail |-> NewNode(l), length |-> l.length + 1,
                nodes |-> [l.nodes EXCEPT
                             ![l.tail].next = NewNode(l),
                             ![NewNode(l)] = [previous |-> l.tail, next |-> NIL,
                                              data |-> newElement]]])

\* inMemLinkedList.append
append(l, newElement) ==
  Sweep(IF l.tail = NIL
          THEN [head |-> NewNode(l), tail |-> NewNode(l), length |-> 1,
                nodes |-> [l.nodes EXCEPT ![NewNode(l)] =
                             [previous |-> NIL, next |-> NIL, data |-> newElement]]]
          ELSE [head |-> l.head, tail |-> NewNode(l), length |-> l.length + 1,
                nodes |-> [l.nodes EXCEPT
                             ![l.tail].next = NewNode(l),
                             ![NewNode(l)] = [previous |-> l.tail, next |-> NIL,
                                              data |-> newElement]]])

\* inMemLinkedList.push
push(l, newElement) ==
  Sweep(IF l.head = NIL
          THEN [head |-> NewNode(l), tail |-> NewNode(l), length |-> 1,
                nodes |-> [l.nodes EXCEPT ![NewNode(l)] =
                             [previous |-> NIL, next |-> NIL, data |-> newElement]]]
          ELSE [head |-> NewNode(l), tail |-> l.tail, length |-> l.length + 1,
                nodes |-> [l.nodes EXCEPT
                             ![l.head].previous = NewNode(l),
                             ![NewNode(l)] = [previous |-> NIL, next |-> l.head,
                                              data |-> newElement]]])

\* inMemLinkedList.pop: [list, val, panic].  With length > 0 and a nil tail
\* the read of ll.tail.data is a nil pointer dereference.
pop(l) ==
  IF l.length = 0 THEN [list |-> l, val |-> NilVal, panic |-> FALSE]
  ELSE IF l.tail = NIL THEN [list |-> l, val |-> NilVal, panic |-> TRUE]
  ELSE LET dataToReturn == l.nodes[l.tail].data
           newTail == l.nodes[l.tail].previous
           nodes2 == IF newTail # NIL
                       THEN [l.nodes EXCEPT ![newTail].next = NIL]
                       ELSE l.nodes
       IN [list |-> Sweep([head |-> l.head, tail |-> newTail,
                           length |-> l.length - 1, nodes |-> nodes2]),
           val |-> dataToReturn, panic |-> FALSE]

\* The node reached from n by k next links (NIL once the chain ends).
RECURSIVE Walk(_, _, _)
Walk(nodes, n, k) ==
  IF k = 0 \/ n = NIL THEN n ELSE Walk(nodes, nodes[n].next, k - 1)

\* A get without the bounds check: the loop does not run for a position
\* below 0, and the chain is followed for any other.
getUnchecked(l, position) ==
  LET currNode == Walk(l.nodes, l.head, Max(position, 0))
  IN IF currNode = NIL THEN [list |-> l, val |-> NilVal, panic |-> TRUE]
     ELSE [list |-> l, val |-> l.nodes[currNode].data, panic |-> FALSE]

\* inMemLinkedList.get: [list, val, panic]; no field of the list is assigned.
\* Reading currNode.data past the end of the chain is a nil pointer
\* dereference.
get(l, position) ==
  IF position < 0 \/ l.length - 1 < position
    THEN [list |-> l, val |-> NilVal, panic |-> FALSE]
  ELSE LET currNode == Walk(l.nodes, l.head, position)
       IN IF currNode = NIL THEN [list |-> l, val |-> NilVal, panic |-> TRUE]
          ELSE [list |-> l, val |-> l.nodes[currNode].data, panic |-> FALSE]

\* inMemLinkedList.iterator: the closure's state is its currNode; the k-th
\* call (k >= 1) of a fresh iterator returns the data of the k-th node of
\* the chain from head, nil once the chain has ended.
iterator(l, k) ==
  LET currNode == Walk(l.nodes, l.head, k - 1)
  IN IF currNode = NIL THEN NilVal ELSE l.nodes[currNode].data

\* The values Get(0), ..., Get(Length()-1) (nil where Get panics).
Contents(l) == [i \in 1..l.length |-> get(l, i - 1).val]

\* ------------------------------------------------------------ log records
\* One item of a log file: a complete record as json.Encoder.Encode writes a
\* marshalledStateChange, or bytes that are no record: text that is not JSON
\* ("garbage") or a record cut short at the end of the file ("truncated").
Rec(key, marshalledParameters) ==
  [kind |-> "rec", Key |-> key, MarshalledParameters |-> marshalledParameters]
Garbage == [kind |-> "garbage", Key |-> "", MarshalledParameters |-> <<>>]
Truncated == [kind |-> "truncated", Key |-> "", MarshalledParameters |-> <<>>]

KeyLen(key) ==
  CASE key = _append -> 10
    [] key = _push -> 8
    [] key = _pop -> 7
    [] OTHER -> 5

\* Bytes of {"Key":"k","MarshalledParameters":["b64",...]} and its newline.
ItemSize(it) ==
  CASE it.kind = "rec" ->
         8 + KeyLen(it.Key) + 25 + 2
           + SumSeq([i \in 1..Len(it.MarshalledParameters) |->
                       B64Len(JsonLen(it.MarshalledParameters[i])) + 2])
           + Max(Len(it.MarshalledParameters) - 1, 0) + 2
    [] it.kind = "garbage" -> 13
    [] OTHER -> 21

\* os.FileInfo.Size of a file.
FileSize(content) == SumSeq([i \in 1..Len(content) |-> ItemSize(content[i])])

\* newOperation(key, parameters...): the operation (stateChange) value.
newOperation(key, parameters) == [key |-> key, parameters |-> parameters]

\* The marshal function newLog is given by NewLinkedList: json.Marshal.
marshaler(v) == jsonMarshal(v)

\* stateChange.marshal: [err, m].
marshal(sc) ==
  LET ms == [i \in 1..Len(sc.parameters) |-> marshaler(sc.parameters[i])]
  IN IF \E i \in 1..Len(ms) : ms[i].err # "nil"
       THEN [err |-> "UnsupportedTypeError", m |-> Rec("", <<>>)]
       ELSE [err |-> "nil", m |-> Rec(sc.key, [i \in 1..Len(ms) |-> ms[i].bytes])]

\* What marshalledStateChange.unmarshal hands to the unmarshal function as
\* the destination: parameters[index], an element of a fresh []interface{}.
UnmarshalTarget == NilInterface

\* marshalledStateChange.unmarshal: [err, sc].
unmarshal(m) ==
  LET us == [i \in 1..Len(m.MarshalledParameters) |->
               jsonUnmarshal(m.MarshalledParameters[i], UnmarshalTarget)]
  IN IF \E i \in 1..Len(us) : us[i].err # "nil"
       THEN [err |-> us[CHOOSE i \in 1..Len(us) :
                          /\ us[i].err # "nil"
                          /\ \A k \in 1..(i - 1) : us[k].err = "nil"].err,
             sc |-> newOperation("", <<>>)]
       ELSE [err |-> "nil",
             sc |-> newOperation(m.Key, [i \in 1..Len(us) |-> us[i].val])]

\* The arguments stateChangeFunction receives from replay's call
\* stateChangeFunction(change.parameters): the slice itself, as the one
\* variadic argument.
CallInputs(parameters) == <<SliceVal(parameters)>>

\* A compaction source that lists the elements from the last to the first.
getCallbackBackward(l) ==
  [i \in 1..l.length |-> newOperation(_append, <<iterator(l, l.length + 1 - i)>>)]

\* ------------------------------------------------------------- LinkedList
\* LinkedList.getCallback: the closure's result on the list as it is now,
\* Length() append operations, the i-th holding what the i-th call of a
\* fresh iterator returns.
getCallback(l) ==
  [i \in 1..l.length |-> newOperation(_append, <<iterator(l, i)>>)]

\* A Go map assignment m[k] = f.
MapPut(m, k, f) == [x \in (DOMAIN m) \cup {k} |-> IF x = k THEN f ELSE m[x]]
EmptyMap == [x \in {} |-> ""]

\* LinkedList.getOperationsMap: the three assignments in source order; the
\* value names the closure by the line that defines it.
getOperationsMap ==
  MapPut(MapPut(MapPut(EmptyMap, _append, "func109"), _pop, "func116"),
         _append, "func123")

\* What a closure of getOperationsMap does: [err, list, panic, over].  over
\* marks a new(node) beyond the model's heap.
Applied(err, list, panic, over) ==
  [err |-> err, list |-> list, panic |-> panic, over |-> over]
PopApplied(p) == Applied("nil", p.list, p.panic, FALSE)

\* One closure of getOperationsMap applied to inputs.
ApplyFunction(f, inputs, l) ==
  CASE f = "func109" ->
         IF Len(inputs) # 1 THEN Applied("Expected 1 parameter", l, FALSE, FALSE)
         ELSE IF ~CanAlloc(l) THEN Applied("nil", l, FALSE, TRUE)
         ELSE Applied("nil", append(l, inputs[1]), FALSE, FALSE)
    [] f = "func116" ->
         IF Len(inputs) # 0 THEN Applied("Expected 0 parameter", l, FALSE, FALSE)
         ELSE PopApplied(pop(l))
    [] OTHER ->
         IF Len(inputs) # 1 THEN Applied("Expected 1 parameter", l, FALSE, FALSE)
         ELSE IF ~CanAlloc(l) THEN Applied("nil", l, FALSE, TRUE)
         ELSE Applied("nil", push(l, inputs[1]), FALSE, FALSE)

\* ---------------------------------------------------------------- replay
\* The loop of log.replay over the items the decoder reads, from item i on:
\* [err, list, at, panic, over]; at is the item the loop stopped at
\* (Len(content) + 1 at io.EOF).
Stopped(err, list, at, panic, over) ==
  [err |-> err, list |-> list, at |-> at, panic |-> panic, over |-> over]

RECURSIVE ReplayLoop(_, _, _, _)
\* The rest of one iteration once the state change function has run (a).
ReplayApplied(l, content, i, stateChangeFunctions, a) ==
  IF a.err # "nil" THEN Stopped("Error applying state change", l, i, FALSE, FALSE)
  ELSE IF a.panic \/ a.over THEN Stopped("nil", a.list, i, a.panic, a.over)
  ELSE ReplayLoop(a.list, content, i + 1, stateChangeFunctions)

\* The rest of one iteration once the record is unmarshalled (u).
ReplayChange(l, content, i, stateChangeFunctions, u) ==
  IF u.err # "nil" THEN Stopped(u.err, l, i, FALSE, FALSE)
  ELSE IF u.sc.key \notin DOMAIN stateChangeFunctions
    THEN Stopped("Recorded key not found in input map", l, i, FALSE, FALSE)
  ELSE ReplayApplied(l, content, i, stateChangeFunctions,
                     ApplyFunction(stateChangeFunctions[u.sc.key],
                                   CallInputs(u.sc.parameters), l))

ReplayLoop(l, content, i, stateChangeFunctions) ==
  IF i > Len(content) THEN Stopped("nil", l, i, FALSE, FALSE)
  ELSE IF content[i].kind = "garbage" THEN Stopped("SyntaxError", l, i, FALSE, FALSE)
  ELSE IF content[i].kind = "truncated" THEN Stopped("unexpected EOF", l, i, FALSE, FALSE)
  ELSE ReplayChange(l, content, i, stateChangeFunctions, unmarshal(content[i]))

\* ------------------------------------------------------------ file system
\* Inodes: one behind the log's path, one the open handle may still hold
\* after a rename, the temporary files left behind and the one being made.
Inos == 1..(MaxTemps + 3)
NoIno == 0

O_RDONLY == "O_RDONLY"
O_APPEND == "O_RDWR|O_APPEND"

\* The world a call acts on: files (inode -> content), the inode at the
\* log's path, the inodes under temporary names, the log struct (its open
\* file: inode, offset in items, access mode; its compactThreshold) and the
\* inner list.
LinkedInos(w) ==
  ({w.pathIno} \cup w.tmpNames \cup {w.log.file.ino}) \ {NoIno}

\* An inode with no name and no open handle is freed.  An inode number is
\* read by no code: the inode at the path is numbered 1, the open handle's
\* (when it is another) 2, those under temporary names from 3 on.
InoName(w, i) ==
  IF i = NoIno THEN NoIno
  ELSE IF i = w.pathIno THEN 1
  ELSE IF i = w.log.file.ino THEN 2
  ELSE 2 + Cardinality({t \in w.tmpNames \ {w.pathIno, w.log.file.ino} : t <= i})

Reclaim(w) ==
  [w EXCEPT
     !.files = [j \in Inos |->
                  IF \E i \in LinkedInos(w) : InoName(w, i) = j
                    THEN w.files[CHOOSE i \in LinkedInos(w) : InoName(w, i) = j]
                    ELSE <<>>],
     !.pathIno = InoName(w, w.pathIno),
     !.tmpNames = {InoName(w, t) : t \in w.tmpNames},
     !.log.file.ino = InoName(w, w.log.file.ino)]

FreshIno(w) == FirstOf(Inos \ LinkedInos(w))

\* What the environment decides for one call of compact(): whether
\* ioutil.TempFile, a write to the temporary file or os.Rename fails, or the
\* process stops ("crash"), and after how many written records (k).
CompactEnvs ==
  {[outcome |-> o, k |-> 0] : o \in {"ok", "tempfail", "renamefail"}}
    \cup {[outcome |-> o, k |-> k] : o \in {"writefail", "crash"}, k \in 0..MaxNodes}

\* log.getCompactedChanges: the closure NewLinkedList passes to newLog.
getCompactedChanges(w) == getCallback(w.inner)

NoCompact(w) ==
  [w |-> w, err |-> "nil", called |-> FALSE, renamed |-> FALSE, crashed |-> FALSE,
   pre |-> <<>>, full |-> <<>>, fullOk |-> FALSE]

\* A compaction that writes over the file at the log's path.
CompactWriteInPlace(w, tmp, records, stopAt) ==
  [w EXCEPT !.files[w.pathIno] = SubSeq(records, 1, stopAt)]

\* The records compact() writes into the file tmp of world w before it
\* stops, records being written in order.
CompactWrite(w, tmp, records, stopAt) ==
  [w EXCEPT !.files[tmp] = SubSeq(records, 1, stopAt), !.tmpNames = @ \cup {tmp}]

\* A replacement of the log that copies the temporary file over the file at
\* the path and leaves the temporary file under its name.
RenameByCopy(w, tmp) ==
  Reclaim([w EXCEPT !.files[w.pathIno] = w.files[tmp]])

\* os.Rename(tempFile.Name(), l.file.Name()): the path names the temporary
\* file's inode from now on; the open handle keeps the inode it has.
Rename(w, tmp) ==
  Reclaim([w EXCEPT !.pathIno = tmp, !.tmpNames = @ \ {tmp}])

\* stateChange.marshal of every compacted change, in order.
MarshalAll(changes) == [i \in 1..Len(changes) |-> marshal(changes[i])]

\* log.compact once the changes are marshalled (ms): a marshalling error
\* stops the writing at the first change that has one.
CompactMarshalled(w, env, ms) ==
  LET pre == w.files[w.pathIno]
      n == Len(ms)
      failing == {i \in 1..n : ms[i].err # "nil"}
      lim == IF failing = {} THEN n ELSE FirstOf(failing) - 1
      records == [i \in 1..n |-> ms[i].m]
      tempFile == FreshIno(w)
      base == [w |-> w, err |-> "nil", called |-> TRUE, renamed |-> FALSE,
               crashed |-> FALSE, pre |-> pre, full |-> records,
               fullOk |-> (failing = {})]
  IN CASE env.outcome = "tempfail" -> base
       [] env.outcome = "crash" ->
            [base EXCEPT !.w = CompactWrite(w, tempFile, records, Min(env.k, lim)),
                         !.crashed = TRUE]
       [] env.outcome = "writefail" /\ env.k < lim ->
            [base EXCEPT !.w = CompactWrite(w, tempFile, records, env.k),
                         !.err = "Error during compaction"]
       [] failing # {} ->
            [base EXCEPT !.w = CompactWrite(w, tempFile, records, lim),
                         !.err = "Marshalling error during compaction"]
       [] env.outcome = "renamefail" ->
            [base EXCEPT !.w = CompactWrite(w, tempFile, records, n),
                         !.err = "rename error"]
       [] OTHER ->
            [base EXCEPT !.w = Rename(CompactWrite(w, tempFile, records, n), tempFile),
                         !.renamed = TRUE]

\* log.compact: [w, err, called, renamed, crashed, pre, full, fullOk].  pre is
\* the content at the path when compact() starts, full the complete compacted
\* record sequence (fullOk: every change could be marshalled).
compact(w, env) == CompactMarshalled(w, env, MarshalAll(getCompactedChanges(w)))

\* A second half of compactIfNecessary that halves the threshold of a file
\* still above it.
ThresholdHalved(c) ==
  IF c.err # "nil" \/ c.crashed THEN c
  ELSE IF FileSize(c.w.files[c.w.log.file.ino]) > c.w.log.compactThreshold
    THEN [c EXCEPT !.w.log.compactThreshold = @ \div 2]
  ELSE c

\* The second half of log.compactIfNecessary, c being what compact() did:
\* the threshold doubles if the open file is still above it.
ThresholdAfter(c) ==
  IF c.err # "nil" \/ c.crashed THEN c
  ELSE IF FileSize(c.w.files[c.w.log.file.ino]) > c.w.log.compactThreshold
    THEN [c EXCEPT !.w.log.compactThreshold = @ * 2]
  ELSE c

\* log.compactIfNecessary: both Stat calls are of the open file l.file.
compactIfNecessary(w, env) ==
  ThresholdAfter(IF FileSize(w.files[w.log.file.ino]) > w.log.compactThreshold
                   THEN compact(w, env)
                   ELSE NoCompact(w))

\* The write of json.NewEncoder(l.file).Encode: refused on a handle opened
\* read-only; on a handle opened for appending the record goes to the end of
\* the handle's inode and the offset with it.
EncodeToFile(w, m) ==
  IF w.log.file.mode = O_RDONLY THEN [err |-> "bad file descriptor", w |-> w]
  ELSE [err |-> "nil",
        w |-> [w EXCEPT !.files[w.log.file.ino] = Append(@, m),
                        !.log.file.off = Len(w.files[w.log.file.ino]) + 1]]

\* An add that swallows the error of marshalling or writing the record.
NotAddedMasked(w, err) == NoCompact(w) @@ [wrote |-> FALSE]

\* log.add returning before the record is in the file: the error, no compaction.
NotAdded(w, err) == [NoCompact(w) EXCEPT !.err = err] @@ [wrote |-> FALSE]

\* log.add once the record is encoded to the file (e).
AddEncoded(e, env) ==
  IF e.err # "nil" THEN NotAdded(e.w, e.err)
  ELSE compactIfNecessary(e.w, env) @@ [wrote |-> TRUE]

\* An add that goes on to write whatever marshal returned.
AddMarshalledAnyway(w, mc, env) == AddEncoded(EncodeToFile(w, mc.m), env)

\* log.add once the change is marshalled (mc).
AddMarshalled(w, mc, env) ==
  IF mc.err # "nil" THEN NotAdded(w, mc.err)
  ELSE AddEncoded(EncodeToFile(w, mc.m), env)

\* log.add: the result of compact and wrote, whether the record was written.
add(w, change, env) == AddMarshalled(w, marshal(change), env)

\* A replay that runs compact() however the loop ended.
ReplayedCompacting(w, env, ra, r) ==
  [compact([w EXCEPT !.inner = r.list,
                     !.log.file.off = Len(w.files[w.log.file.ino])], env)
     EXCEPT !.err = r.err]
    @@ [panic |-> r.panic, over |-> r.over, at |-> r.at]

\* log.replay once the loop has ended (r): compact() if it ended without
\* error.  After a failure the offset is wherever the decoder's buffered
\* reads have got to (ra: items read ahead).
Replayed(w, env, ra, r) ==
  IF r.err # "nil" \/ r.panic \/ r.over
    THEN [NoCompact([w EXCEPT !.inner = r.list,
                              !.log.file.off =
                                Min(Len(w.files[w.log.file.ino]), r.at + ra)])
            EXCEPT !.err = r.err]
           @@ [panic |-> r.panic, over |-> r.over, at |-> r.at]
  ELSE compact([w EXCEPT !.inner = r.list,
                         !.log.file.off = Len(w.files[w.log.file.ino])], env)
         @@ [panic |-> r.panic, over |-> r.over, at |-> r.at]

\* log.replay: the decoder reads on from the handle's offset.
\* [.., panic, over, at] added to compact's result.
replay(w, stateChangeFunctions, env, ra) ==
  Replayed(w, env, ra,
           ReplayLoop(w.inner, w.files[w.log.file.ino], w.log.file.off + 1,
                      stateChangeFunctions))

\* The filepath arguments: the path of the log file, and a path whose parent
\* directory does not exist.  The permission bits of the file at the path.
LogPath == "log"
NoSuchPath == "nodir/log"
Perms == {"rw-", "r--", "---"}

\* The *os.File of a failed os.Open: no open file.
NoFile == [ino |-> NoIno, off |-> 0, mode |-> O_RDONLY]

\* os.Open(filepath): O_RDONLY; it fails when the path does not exist or the
\* file is not readable, and does not need the file to be writable.
osOpen(w, filepath, perm) ==
  IF filepath = NoSuchPath THEN [err |-> "ENOENT", file |-> NoFile]
  ELSE IF perm = "---" THEN [err |-> "EACCES", file |-> NoFile]
  ELSE [err |-> "nil",
        file |-> [ino |-> w.pathIno, off |-> 0, mode |-> O_RDONLY]]

\* newLog: [err, log]; the error of os.Open is returned with no log.
newLog(w, filepath, perm) ==
  LET o == osOpen(w, filepath, perm)
  IN [err |-> o.err,
      log |-> [file |-> o.file,
               compactThreshold |-> initialCompactionThreshold]]

\* ------------------------------------------------------------------ state
VARIABLES
  files,      \* inode -> content, a sequence of items
  pathIno,    \* the inode the log's path names
  tmpNames,   \* the inodes under temporary names (TempCompactionFile-...)
  log,        \* the LinkedList's log: [file: [ino, off, mode], compactThreshold]
  inner,      \* the LinkedList's inner list
  alive,      \* a process holding the LinkedList is running
  extern,     \* the file this LinkedList's log was opened on was not empty
  errors,     \* calls of this LinkedList that returned an error or panicked
  ret         \* the last call and what it returned

vars == <<files, pathIno, tmpNames, log, inner, alive, extern, errors, ret>>

World ==
  [files |-> files, pathIno |-> pathIno, tmpNames |-> tmpNames, log |-> log,
   inner |-> inner]

\* The log of a process that is gone: no open file.
ClosedLog ==
  [file |-> [ino |-> NoIno, off |-> 0, mode |-> O_RDONLY],
   compactThreshold |-> initialCompactionThreshold]

\* The model's bounds on a world.
Fits(w) ==
  /\ \A i \in Inos : Len(w.files[i]) <= MaxFileLen
  /\ Cardinality(w.tmpNames) <= MaxTemps

\* What a call returned: the call, its argument, the returned value and
\* error, whether it panicked, and what log.add and log.compact did in it.
Ret(op, arg, val, err, panic, preLen, r) ==
  [op |-> op, arg |-> arg, val |-> val, err |-> err, panic |-> panic,
   preLen |-> preLen, wrote |-> r.wrote, called |-> r.called,
   renamed |-> r.renamed, crashed |-> r.crashed, pre |-> r.pre,
   full |-> r.full, fullOk |-> r.fullOk, hasList |-> FALSE]

NoLog(w) == NoCompact(w) @@ [wrote |-> FALSE]

\* The files a log may be opened on: empty, or written earlier by whatever
\* wrote to the path.
A1 == Rec(_append, <<JsonNum(1)>>)
InitFiles ==
  { <<>>,
    <<A1>>,
    <<A1, Truncated>>,
    <<Garbage>>,
    <<Rec("bogus", <<>>)>>,
    <<Rec(_append, <<>>)>>,
    <<Rec(_append, <<>>), Rec(_append, <<>>)>>,
    <<Rec(_pop, <<>>)>>,
    <<Rec(_pop, <<JsonNum(1)>>)>>,
    <<Rec(_push, <<JsonNum(1)>>)>>,
    <<Rec(_append, <<JsonBad>>)>>,
    <<A1, Rec(_push, <<JsonNull>>), Rec(_pop, <<>>)>>,
    <<Rec(_append, <<>>), Rec(_pop, <<>>), Rec(_append, <<>>)>> }

\* A LinkedList value whose fields are set: inner a new list, log a log
\* whose file is open on the path.  newLog opens read-only; a handle opened
\* for appending is what log.add needs to write at all.
InitOpens ==
  {<<f, O_RDONLY>> : f \in InitFiles} \cup {<<<<>>, O_APPEND>>}

Init ==
  \E f \in InitFiles, mode \in {O_RDONLY, O_APPEND} :
    /\ <<f, mode>> \in InitOpens
    /\ files = [i \in Inos |-> IF i = 1 THEN f ELSE <<>>]
    /\ pathIno = 1
    /\ tmpNames = {}
    /\ log = [file |-> [ino |-> 1, off |-> 0, mode |-> mode],
              compactThreshold |-> initialCompactionThreshold]
    /\ inner = NewInMemLinkedList
    /\ alive = TRUE
    /\ extern = (f # <<>>)
    /\ errors = 0
    /\ ret = Ret("init", NilVal, NilVal, "nil", FALSE, 0, NoLog(World))

\* The state a call leaves: its world, or what is left on disk when the
\* process stopped inside it or the call panicked (nothing recovers).
Leave(r, newRet) ==
  /\ Fits(r.w)
  /\ \E d \in {IF r.crashed \/ newRet.panic
                 THEN Reclaim([r.w EXCEPT !.log = ClosedLog,
                                          !.inner = NewInMemLinkedList])
                 ELSE Reclaim(r.w)} :
       /\ files' = d.files
       /\ pathIno' = d.pathIno
       /\ tmpNames' = d.tmpNames
       /\ log' = d.log
       /\ inner' = d.inner
  /\ alive' = ~(r.crashed \/ newRet.panic)
  /\ ret' = newRet
  /\ errors' = IF newRet.op = "OpenList" THEN 0
               ELSE IF newRet.err # "nil" \/ newRet.panic THEN errors + 1
               ELSE errors
  /\ extern' = IF newRet.op = "OpenList" THEN files[pathIno] # <<>> ELSE extern

\* ------------------------------------------------------ LinkedList methods
\* LinkedList.Append: [w, err, ...] of log.add after the inner append.
LinkedListAppend(w, newElement, env) ==
  add([w EXCEPT !.inner = append(w.inner, newElement)],
      newOperation(_append, <<newElement>>), env)

\* LinkedList.Push
LinkedListPush(w, newElement, env) ==
  add([w EXCEPT !.inner = push(w.inner, newElement)],
      newOperation(_push, <<newElement>>), env)

\* A Pop that logs whatever the inner pop returned.
PoppedAndLogged(w, p, env) ==
  add([w EXCEPT !.inner = p.list], newOperation(_pop, <<>>), env)
    @@ [val |-> p.val, panic |-> p.panic]

\* LinkedList.Pop once the inner pop is done (p): popped == nil returns
\* (nil, nil) without logging.
Popped(w, p, env) ==
  IF p.panic THEN NoLog(w) @@ [val |-> NilVal, panic |-> TRUE]
  ELSE IF p.val = NilVal
    THEN NoLog([w EXCEPT !.inner = p.list]) @@ [val |-> NilVal, panic |-> FALSE]
  ELSE add([w EXCEPT !.inner = p.list], newOperation(_pop, <<>>), env)
         @@ [val |-> p.val, panic |-> FALSE]

\* LinkedList.Pop
LinkedListPop(w, env) == Popped(w, pop(w.inner), env)

\* The environment's choices that matter to a call: those of compact() if
\* the call gets there, and the read-ahead if replay stops at an error.
OkEnv == [outcome |-> "ok", k |-> 0]
EnvsOf(r) == IF r.called THEN CompactEnvs ELSE {OkEnv}
ReadAheadsOf(r) == IF r.err # "nil" /\ ~r.called THEN {0, MaxFileLen} ELSE {0}

AppendCall(newElement, env) ==
  /\ alive
  /\ errors < MaxErrors
  /\ CanAlloc(inner)
  /\ \E r \in {LinkedListAppend(World, newElement, env)} :
       /\ env \in EnvsOf(r)
       /\ Leave(r, Ret("Append", newElement, NilVal, r.err, FALSE, inner.length, r))

PushCall(newElement, env) ==
  /\ alive
  /\ errors < MaxErrors
  /\ CanAlloc(inner)
  /\ \E r \in {LinkedListPush(World, newElement, env)} :
       /\ env \in EnvsOf(r)
       /\ Leave(r, Ret("Push", newElement, NilVal, r.err, FALSE, inner.length, r))

PopCall(env) ==
  /\ alive
  /\ errors < MaxErrors
  /\ \E r \in {LinkedListPop(World, env)} :
       /\ env \in EnvsOf(r)
       /\ Leave(r, Ret("Pop", NilVal, r.val, r.err, r.panic, inner.length, r))

\* ll.log.replay(ll.getOperationsMap()), the call NewLinkedList makes on the
\* list it has set up.
\* Where the model has replay called: on a handle at offset 0, and right
\* after the first add of a log opened on an empty file (offset 1).
ReplayPoint ==
  \/ log.file.off = 0
  \/ /\ ret.op \in {"Append", "Push"}
     /\ ret.wrote
     /\ ret.err = "nil"
     /\ ~extern
     /\ Len(files[log.file.ino]) = 1

Replay(env, ra) ==
  /\ alive
  /\ ReplayPoint
  /\ \E r \in {replay(World, getOperationsMap, env, ra) @@ [wrote |-> FALSE]} :
       /\ env \in EnvsOf(r)
       /\ ra \in ReadAheadsOf(r)
       /\ ~r.over
       /\ Leave(r, Ret("replay", NilVal, NilVal, r.err, r.panic, inner.length, r))

\* The named result linkedList of NewLinkedList when its body starts.
NilPtr == "nil"
Allocated == "allocated"
linkedList == NilPtr

\* NewLinkedList: [w, err, panic, hasList, ...].  The first statement assigns
\* to linkedList.log; through a nil linkedList that is a nil pointer
\* dereference.  Past it: new inner list, replay, and the list is returned
\* only if replay returned no error.
NewLinkedListReplayed(r) ==
  [hasList |-> (r.err = "nil" /\ ~r.panic)] @@ r @@ [wrote |-> FALSE]

NewLinkedListOpened(w, o, env, ra) ==
  IF o.err # "nil"
    THEN [err |-> o.err, panic |-> FALSE, hasList |-> FALSE, over |-> FALSE]
           @@ NoLog(w)
  ELSE NewLinkedListReplayed(
         replay(Reclaim([w EXCEPT !.log = o.log, !.inner = NewInMemLinkedList]),
                getOperationsMap, env, ra))

NewLinkedListCall(w, receiver, filepath, perm, env, ra) ==
  IF receiver = NilPtr
    THEN NoLog(w) @@ [panic |-> TRUE, hasList |-> FALSE, over |-> FALSE]
  ELSE NewLinkedListOpened(w, newLog(w, filepath, perm), env, ra)

\* The filepath NewLinkedList was called with and the permission bits of the
\* file there, as the argument ret records.
OpenArg(filepath, perm) == [t |-> "open", n |-> 0, e |-> <<filepath, perm>>]

\* The (filepath, permission) inputs: permissions matter for a path that exists.
OpenInputs == {<<LogPath, p>> : p \in Perms} \cup {<<NoSuchPath, "---">>}

NewLinkedList(filepath, perm, env, ra) ==
  /\ \E r \in {NewLinkedListCall(World, linkedList, filepath, perm, env, ra)} :
       /\ env \in EnvsOf(r)
       /\ ra \in ReadAheadsOf(r)
       /\ ~r.over
       /\ Fits(r.w)
       /\ \E d \in {IF r.panic \/ r.crashed
                      THEN Reclaim([r.w EXCEPT !.log = ClosedLog,
                                               !.inner = NewInMemLinkedList])
                    ELSE IF r.err # "nil"
                      THEN Reclaim([r.w EXCEPT !.log = log, !.inner = inner])
                    ELSE Reclaim(r.w)} :
            /\ files' = d.files
            /\ pathIno' = d.pathIno
            /\ tmpNames' = d.tmpNames
            /\ log' = d.log
            /\ inner' = d.inner
       /\ alive' = IF r.panic \/ r.crashed THEN FALSE ELSE alive
       /\ errors' = IF r.panic \/ r.crashed \/ r.err # "nil" THEN errors ELSE 0
       /\ ret' = [Ret("NewLinkedList", OpenArg(filepath, perm), NilVal, r.err,
                      r.panic, 0, r)
                   EXCEPT !.hasList = r.hasList]
       /\ extern' = IF r.panic \/ r.crashed \/ r.err # "nil" THEN extern
                    ELSE files[pathIno] # <<>>

\* A LinkedList set up on the path as NewLinkedList sets its fields: log from
\* newLog, inner from new(inMemLinkedList).
OpenList ==
  \E r \in {NoLog(Reclaim([World EXCEPT !.log = newLog(World, LogPath, "rw-").log,
                                         !.inner = NewInMemLinkedList]))} :
    Leave(r, Ret("OpenList", NilVal, NilVal, "nil", FALSE, 0, r))

Next ==
  \/ \E v \in Values, env \in CompactEnvs : AppendCall(v, env)
  \/ \E v \in Values, env \in CompactEnvs : PushCall(v, env)
  \/ \E env \in CompactEnvs : PopCall(env)
  \/ \E env \in CompactEnvs, ra \in {0, MaxFileLen} : Replay(env, ra)
  \/ \E o \in OpenInputs, env \in CompactEnvs, ra \in {0, MaxFileLen} :
       NewLinkedList(o[1], o[2], env, ra)
  \/ OpenList

Spec == Init /\ [][Next]_vars

\* --------------------------------------------- the in-memory list alone
\* An inMemLinkedList as new(inMemLinkedList) makes it, with no log, and the
\* calls LinkedList forwards to it.  A nil pointer dereference ends the
\* process with the list as the panicking call left it.
Positions == -1..(MaxNodes + 1)
IteratorCalls == 1..(MaxNodes + 2)

ListInit ==
  /\ files = [i \in Inos |-> <<>>]
  /\ pathIno = 1
  /\ tmpNames = {}
  /\ log = ClosedLog
  /\ inner = NewInMemLinkedList
  /\ alive = TRUE
  /\ extern = FALSE
  /\ errors = 0
  /\ ret = Ret("init", NilVal, NilVal, "nil", FALSE, 0, NoLog(World))

ListLeave(l, op, arg, val, panic) ==
  /\ inner' = l
  /\ alive' = ~panic
  /\ ret' = Ret(op, arg, val, "nil", panic, inner.length, NoLog(World))
  /\ UNCHANGED <<files, pathIno, tmpNames, log, extern, errors>>

ListAppend(newElement) ==
  /\ alive
  /\ CanAlloc(inner)
  /\ ListLeave(append(inner, newElement), "append", newElement, NilVal, FALSE)

ListPush(newElement) ==
  /\ alive
  /\ CanAlloc(inner)
  /\ ListLeave(push(inner, newElement), "push", newElement, NilVal, FALSE)

ListPop ==
  /\ alive
  /\ \E p \in {pop(inner)} : ListLeave(p.list, "pop", NilVal, p.val, p.panic)

\* LinkedList.Get(position): inner.get(position).
ListGet(position) ==
  /\ alive
  /\ \E g \in {get(inner, position)} :
       ListLeave(g.list, "get", IntVal(position), g.val, g.panic)

\* LinkedList.Iterator(): the k-th call of the function a fresh
\* inner.iterator() returns.
ListIterator(k) ==
  /\ alive
  /\ ListLeave(inner, "iterator", IntVal(k), iterator(inner, k), FALSE)

ListNext ==
  \/ \E v \in Values : ListAppend(v)
  \/ \E v \in Values : ListPush(v)
  \/ ListPop
  \/ \E position \in Positions : ListGet(position)
  \/ \E k \in IteratorCalls : ListIterator(k)

ListSpec == ListInit /\ [][ListNext]_vars

\* ------------------------------------------- the reading methods and the log
\* A Get that records its call in the log.
LinkedListGetLogged(w, position) ==
  add(w, newOperation("__get__", <<IntVal(position)>>), OkEnv)
    @@ [val |-> get(w.inner, position).val, panic |-> get(w.inner, position).panic]

\* LinkedList.Get: inner.get(position); the log is not used.
LinkedListGet(w, position) ==
  NoLog([w EXCEPT !.inner = get(w.inner, position).list])
    @@ [val |-> get(w.inner, position).val, panic |-> get(w.inner, position).panic]

\* LinkedList.Length: inner.length.
LinkedListLength(w) == NoLog(w) @@ [val |-> IntVal(w.inner.length), panic |-> FALSE]

\* LinkedList.Iterator: the k-th call of the function inner.iterator() returns.
LinkedListIterator(w, k) == NoLog(w) @@ [val |-> iterator(w.inner, k), panic |-> FALSE]

GetCall(position) ==
  /\ alive
  /\ \E r \in {LinkedListGet(World, position)} :
       Leave(r, Ret("Get", IntVal(position), r.val, r.err, r.panic, inner.length, r))

LengthCall ==
  /\ alive
  /\ \E r \in {LinkedListLength(World)} :
       Leave(r, Ret("Length", NilVal, r.val, r.err, r.panic, inner.length, r))

IteratorCall(k) ==
  /\ alive
  /\ \E r \in {LinkedListIterator(World, k)} :
       Leave(r, Ret("Iterator", IntVal(k), r.val, r.err, r.panic, inner.length, r))

\* A LinkedList on an empty file, its methods called in any order.
ReadInit == Init /\ files[pathIno] = <<>>

ReadNext ==
  \/ \E v \in Values, env \in CompactEnvs : AppendCall(v, env)
  \/ \E v \in Values, env \in CompactEnvs : PushCall(v, env)
  \/ \E env \in CompactEnvs : PopCall(env)
  \/ \E position \in Positions : GetCall(position)
  \/ LengthCall
  \/ \E k \in IteratorCalls : IteratorCall(k)

ReadSpec == ReadInit /\ [][ReadNext]_vars

\* ------------------------------------------------- the list test scenarios
\* The values the tests insert: those Append and Push can log.
Loggable == {v \in Values : jsonMarshal(v).err = "nil"}
Runs == UNION {[1..n -> Loggable] : n \in 1..MaxRun}

\* Push (Append) of vs[1], ..., vs[n] in that order, whatever error each call
\* returns: [w, fits], fits being whether the model's nodes sufficed.
RECURSIVE PushAll(_, _)
PushAll(w, vs) ==
  IF vs = <<>> THEN [w |-> w, fits |-> TRUE]
  ELSE IF ~CanAlloc(w.inner) THEN [w |-> w, fits |-> FALSE]
  ELSE PushAll(LinkedListPush(w, Head(vs), OkEnv).w, Tail(vs))

RECURSIVE AppendAll(_, _)
AppendAll(w, vs) ==
  IF vs = <<>> THEN [w |-> w, fits |-> TRUE]
  ELSE IF ~CanAlloc(w.inner) THEN [w |-> w, fits |-> FALSE]
  ELSE AppendAll(LinkedListAppend(w, Head(vs), OkEnv).w, Tail(vs))

\* n successive Pop calls: [w, vals, ok]; vals are the values returned and
\* ok is whether every call returned without error and without panicking.
RECURSIVE PopAll(_, _)
PopStep(p, rest) ==
  [w |-> rest.w, vals |-> <<p.val>> \o rest.vals,
   ok |-> (p.err = "nil" /\ ~p.panic /\ rest.ok)]
PopAll(w, n) ==
  IF n = 0 THEN [w |-> w, vals |-> <<>>, ok |-> TRUE]
  ELSE PopStep(LinkedListPop(w, OkEnv),
               PopAll(LinkedListPop(w, OkEnv).w, n - 1))

\* ----------------------------------------------------------------- claims
\* C1: when every Append, Push and Pop call on a LinkedList opened on an
\* empty file has returned no error, NewLinkedList on the same path returns
\* a list with the same Length() and the same value at every index.
C1_ReopenReproducesList ==
  [][((ret'.op = "NewLinkedList" /\ ret'.arg = OpenArg(LogPath, "rw-")) /\ alive /\ ~extern /\ errors = 0)
       => /\ ret'.hasList
          /\ ~ret'.panic
          /\ inner'.length = inner.length
          /\ Contents(inner') = Contents(inner)]_vars

C3_ApplyTable ==
  /\ {_append, _push, _pop} \subseteq DOMAIN getOperationsMap
  /\ \A v \in Values :
       CanAlloc(inner) =>
         /\ Contents(ApplyFunction(getOperationsMap[_append], <<v>>, inner).list)
              = Contents(inner) \o <<v>>
         /\ Contents(ApplyFunction(getOperationsMap[_push], <<v>>, inner).list)
              = <<v>> \o Contents(inner)
  /\ inner.length > 0 =>
       Contents(ApplyFunction(getOperationsMap[_pop], <<>>, inner).list)
         = SubSeq(Contents(inner), 1, inner.length - 1)

\* C4: Pop on an empty list returns nil and no error, leaves the list empty
\* and the files as they were (no record written, the size unchanged), and
\* runs neither the write of log.add nor compaction.
C4_PopOnEmptyList ==
  [][(ret'.op = "Pop" /\ inner.length = 0)
       => /\ ret'.val = NilVal
          /\ ret'.err = "nil"
          /\ ~ret'.panic
          /\ inner'.length = 0
          /\ ~ret'.wrote
          /\ ~ret'.called
          /\ files' = files
          /\ pathIno' = pathIno
          /\ FileSize(files'[pathIno']) = FileSize(files[pathIno])
          /\ log' = log]_vars

\* A Pop on an empty list whose log holds the records of an earlier Append
\* and Pop.
C4_Witness ==
  /\ ret.op = "Pop"
  /\ ret.preLen = 0
  /\ log.file.mode = O_APPEND
  /\ Len(files[pathIno]) = 2

\* C5: after a call in which compact() ran (and failed, or the process
\* stopped inside it, or it returned), the file at the log's path holds the
\* complete record sequence it held when compact() started or the complete
\* compacted record sequence, never a part of the compacted one.
C5_CompactionIsAtomic ==
  ret.called =>
    \/ files[pathIno] = ret.pre
    \/ ret.renamed /\ ret.fullOk /\ files[pathIno] = ret.full

\* The process stopped inside compact() and left a temporary file holding
\* only a part of the compacted records.
C5_Witness ==
  /\ ret.called
  /\ ret.crashed
  /\ \E t \in tmpNames :
       /\ files[t] # <<>>
       /\ Len(files[t]) < Len(ret.full)
  /\ files[pathIno] = ret.pre
  /\ ret.pre # ret.full

\* C6: once a compaction has replaced the file at the path, replaying that
\* file into an empty list yields the list that was compacted, and a
\* LinkedList then constructed on the path equals that list in length and
\* order.
C6_CompactedLogReproducesList ==
  [][(alive /\ ret.renamed /\ ret.fullOk)
       => /\ ReplayLoop(NewInMemLinkedList, files[pathIno], 1,
                        getOperationsMap).err = "nil"
          /\ Contents(ReplayLoop(NewInMemLinkedList, files[pathIno], 1,
                                 getOperationsMap).list) = Contents(inner)
          /\ (ret'.op = "NewLinkedList" /\ ret'.arg = OpenArg(LogPath, "rw-")) =>
               /\ ret'.hasList
               /\ Contents(inner') = Contents(inner)]_vars

\* C7: the file at the path of a log opened on an empty file is a sequence
\* of complete records, and every prefix of it replays into an empty list
\* without error.
C7_EveryPrefixReplays ==
  ~extern =>
    \A k \in 0..Len(files[pathIno]) :
      /\ \A j \in 1..k : files[pathIno][j].kind = "rec"
      /\ ReplayLoop(NewInMemLinkedList, SubSeq(files[pathIno], 1, k), 1,
                    getOperationsMap).err = "nil"
      /\ ~ReplayLoop(NewInMemLinkedList, SubSeq(files[pathIno], 1, k), 1,
                     getOperationsMap).panic

C9_TruncatedRecordFailsConstruction ==
  [][/\ (ret'.op = "replay" /\ files[log.file.ino] = <<A1, Truncated>>)
          => (ret'.err # "nil" /\ ~ret'.panic)
     /\ ((ret'.op = "NewLinkedList" /\ ret'.arg = OpenArg(LogPath, "rw-")) /\ files[pathIno] = <<A1, Truncated>>)
          => (ret'.err # "nil" /\ ~ret'.panic /\ ~ret'.hasList)]_vars

\* C10: NewLinkedList (and the replay it runs) returns an error and no list
\* when the file holds a record whose key is none of the append, push and
\* pop keys, an append or push record without exactly one parameter, a pop
\* record with a parameter, or a parameter that is not JSON.
C10_MalformedRecordFailsConstruction ==
  [][\A f \in {files[pathIno]} :
       (\E i \in 1..Len(f) :
          /\ f[i].kind = "rec"
          /\ \/ f[i].Key \notin {_append, _push, _pop}
             \/ f[i].Key \in {_append, _push} /\ Len(f[i].MarshalledParameters) # 1
             \/ f[i].Key = _pop /\ Len(f[i].MarshalledParameters) # 0
             \/ \E k \in 1..Len(f[i].MarshalledParameters) :
                  f[i].MarshalledParameters[k] = JsonBad)
         => /\ (ret'.op = "replay" /\ log.file.ino = pathIno)
                 => (ret'.err # "nil" /\ ~ret'.panic)
            /\ (ret'.op = "NewLinkedList" /\ ret'.arg = OpenArg(LogPath, "rw-"))
                 => (ret'.err # "nil" /\ ~ret'.panic /\ ~ret'.hasList)]_vars

\* C11: for the operation an Append or Push call has logged (its parameter
\* can be marshalled), unmarshalling the marshalled operation returns no
\* error and an operation with the same key, the same number of parameters
\* and equal parameter values in the same order.
C11_MarshalRoundTrip ==
  (/\ ret.op \in {"Append", "Push"}
   /\ marshal(newOperation(_append, <<ret.arg>>)).err = "nil")
    => \A key \in {IF ret.op = "Append" THEN _append ELSE _push} :
         \A u \in {unmarshal(marshal(newOperation(key, <<ret.arg>>)).m)} :
           /\ u.err = "nil"
           /\ u.sc.key = key
           /\ Len(u.sc.parameters) = 1
           /\ u.sc.parameters[1] = ret.arg

C13_AddAfterNewLogStores ==
  [][(/\ ret.op = "OpenList"
      /\ ret'.op \in {"Append", "Push"}
      /\ ~ret'.crashed
      /\ marshal(newOperation(_append, <<ret'.arg>>)).err = "nil")
       => /\ ret'.err = "nil"
          /\ ret'.wrote
          /\ Len(files'[pathIno']) = Len(files[pathIno]) + 1
          /\ files[pathIno] = <<>> =>
               \A r \in {ReplayLoop(NewInMemLinkedList, files'[pathIno'], 1,
                                     getOperationsMap)} :
                 /\ r.err = "nil"
                 /\ ~r.panic
                 /\ Contents(r.list) = Contents(inner')]_vars

\* C14: NewLinkedList on the path of an existing empty file returns no error
\* and a list whose Length() is 0, whose Get(i) is nil for every i, and
\* whose fresh iterator returns nil on its first call.
C14_EmptyFileGivesEmptyList ==
  [][(/\ ret'.op = "NewLinkedList"
      /\ ret'.arg \in {OpenArg(LogPath, "rw-")}
      /\ files[pathIno] = <<>>
      /\ ~ret'.crashed)
       => /\ ret'.err = "nil"
          /\ ~ret'.panic
          /\ ret'.hasList
          /\ inner'.length = 0
          /\ \A i \in Positions :
               get(inner', i) = [list |-> inner', val |-> NilVal, panic |-> FALSE]
          /\ iterator(inner', 1) = NilVal]_vars

\* C15: from any state in which the list is empty, pushing v0, ..., v(n-1) in
\* that order and then calling Pop n times returns v0, ..., v(n-1) in that
\* order with no error; Length() is then 0 and one further Pop returns nil.
C15_PushThenPopIsFifo ==
  (alive /\ inner.length = 0)
    => \A vs \in Runs :
         \A pushed \in {PushAll(World, vs)} :
           pushed.fits =>
             \A popped \in {PopAll(pushed.w, Len(vs))} :
               /\ popped.ok
               /\ popped.vals = vs
               /\ popped.w.inner.length = 0
               /\ LinkedListPop(popped.w, OkEnv).val = NilVal
               /\ ~LinkedListPop(popped.w, OkEnv).panic

\* C16: from any state in which the list is empty, after appending
\* v0, ..., v(n-1) in that order Get(i) returns vi for every 0 <= i < n
\* without changing the list, and Length() is n.
C16_AppendThenGet ==
  (alive /\ inner.length = 0)
    => \A vs \in Runs :
         \A appended \in {AppendAll(World, vs)} :
           appended.fits =>
             /\ appended.w.inner.length = Len(vs)
             /\ \A i \in 0..(Len(vs) - 1) :
                  get(appended.w.inner, i)
                    = [list |-> appended.w.inner, val |-> vs[i + 1],
                       panic |-> FALSE]

\* Get(1) has returned the second of two different values of a list of two.
C16_Witness ==
  /\ ret.op = "get"
  /\ ret.arg = IntVal(1)
  /\ ~ret.panic
  /\ inner.length = 2
  /\ inner.tail # NIL
  /\ ret.val = inner.nodes[inner.tail].data
  /\ ret.val # inner.nodes[inner.head].data

\* C17: in every state of the list reached by append, push and pop, the
\* first Length() calls of a fresh iterator return Get(0), ...,
\* Get(Length()-1) in that order, every further call returns nil, and a call
\* of the iterator changes neither the contents nor the length of the list.
C17_IteratorYieldsTheList ==
  [][alive =>
       /\ \A k \in IteratorCalls :
            /\ k <= inner.length
                 => /\ ~get(inner, k - 1).panic
                    /\ iterator(inner, k) = get(inner, k - 1).val
            /\ k > inner.length => iterator(inner, k) = NilVal
       /\ ret'.op = "iterator" => inner' = inner]_vars

\* C18: in every state of the list reached by append, push and pop, Get(i)
\* returns nil, without panicking, for every i < 0 and every i >= Length(),
\* and no Get call changes the list.
C18_GetOutOfRange ==
  [][alive =>
       /\ \A i \in Positions :
            (i < 0 \/ i >= inner.length)
              => get(inner, i) = [list |-> inner, val |-> NilVal, panic |-> FALSE]
       /\ ret'.op = "get" =>
            /\ inner' = inner
            /\ (ret'.arg.n < 0 \/ ret'.arg.n >= inner.length)
                 => (ret'.val = NilVal /\ ~ret'.panic)]_vars

\* Get has been called with a position below 0 on a list that is not empty.
C18_Witness ==
  /\ ret.op = "get"
  /\ ret.arg.n < 0
  /\ inner.length > 0
  /\ ret.val = NilVal
  /\ alive

\* C19: NewLinkedList returns an error and no list, without panicking, when
\* the file at the given path cannot be opened: its parent directory does
\* not exist, or the file is not readable.
C19_UnopenableFileFailsConstruction ==
  [][(/\ ret'.op = "NewLinkedList"
      /\ ret'.arg \in {OpenArg(NoSuchPath, "---"), OpenArg(LogPath, "---")})
       => /\ ret'.err # "nil"
          /\ ~ret'.panic
          /\ ~ret'.hasList]_vars

\* C20: NewLinkedList returns an error, without panicking, when the existing
\* log file at the given path is read-only.
C20_ReadOnlyFileFailsConstruction ==
  [][(/\ ret'.op = "NewLinkedList"
      /\ ret'.arg \in {OpenArg(LogPath, "r--")}
      /\ ~ret'.crashed)
       => /\ ret'.err # "nil"
          /\ ~ret'.panic
          /\ ~ret'.hasList]_vars

\* C21: after any sequence of append, push and pop, head is nil exactly
\* when tail is nil exactly when length is 0.
C21_HeadTailLengthAgree ==
  alive => /\ (inner.head = NIL) <=> (inner.tail = NIL)
           /\ (inner.tail = NIL) <=> (inner.length = 0)

\* C22: after any sequence of append, push and pop, length is not negative
\* and is the number of nodes reached from head along the next links.
C22_LengthCountsChain ==
  alive => /\ inner.length >= 0
           /\ inner.length = Len(ChainFrom(inner.nodes, inner.head, MaxNodes + 1))

\* C23: after any sequence of append, push and pop, a list that is not
\* empty has a tail whose next is nil, a head whose previous is nil, and
\* its tail is the node length-1 next links from head.
C23_EndsOfChain ==
  (alive /\ inner.length > 0)
    => /\ inner.head # NIL
       /\ inner.tail # NIL
       /\ inner.nodes[inner.tail].next = NIL
       /\ inner.nodes[inner.head].previous = NIL
       /\ Walk(inner.nodes, inner.head, inner.length - 1) = inner.tail

\* C24: a Pop called when Length() > 0 does not return nil: it removes the
\* tail, returns the tail's value, and writes one pop record without
\* parameters to the log's file, whatever loggable value the tail holds.
C24_PopOfNonEmptyList ==
  [][(ret'.op = "Pop" /\ inner.length > 0 /\ ~ret'.crashed)
       => /\ ~ret'.panic
          /\ ret'.val # NilVal
          /\ inner.tail # NIL
          /\ ret'.val = inner.nodes[inner.tail].data
          /\ inner'.length = inner.length - 1
          /\ Contents(inner') = SubSeq(Contents(inner), 1, inner.length - 1)
          /\ ret'.wrote
          /\ ~ret'.called
               => files'[log'.file.ino]
                    = Append(files[log.file.ino], Rec(_pop, <<>>))]_vars

C26_ApplyGetsTheParameters ==
  [][ret'.op = "replay"
       => \A i \in 1..Len(files[log.file.ino]) :
            \A u \in {unmarshal(files[log.file.ino][i])} :
              (files[log.file.ino][i].kind = "rec" /\ u.err = "nil")
                => /\ Len(CallInputs(u.sc.parameters)) = Len(u.sc.parameters)
                   /\ \A k \in 1..Len(u.sc.parameters) :
                        CallInputs(u.sc.parameters)[k] = u.sc.parameters[k]]_vars

\* C27: after a call whose compact() replaced the file and returned no
\* error, the file at the log's path holds exactly the marshalled operations
\* of the compaction source, in its order, and replaying that file into an
\* empty list yields the current list.
C27_CompactedFileIsTheSource ==
  (alive /\ ret.called /\ ret.renamed /\ ret.err = "nil")
    => /\ Len(files[pathIno]) = Len(getCallback(inner))
       /\ \A i \in 1..Len(files[pathIno]) :
            files[pathIno][i] = marshal(getCallback(inner)[i]).m
       /\ \A r \in {ReplayLoop(NewInMemLinkedList, files[pathIno], 1,
                                getOperationsMap)} :
            /\ r.err = "nil"
            /\ ~r.panic
            /\ Contents(r.list) = Contents(inner)

\* C28: in every state the compaction source returns Length() operations,
\* each with the append key and one parameter, the i-th parameter being
\* Get(i); and a file that compaction has just written holds append records
\* only.
C28_SourceIsAppendsOfTheList ==
  alive =>
    /\ Len(getCallback(inner)) = inner.length
    /\ \A i \in 1..inner.length :
         /\ getCallback(inner)[i].key = _append
         /\ Len(getCallback(inner)[i].parameters) = 1
         /\ ~get(inner, i - 1).panic
         /\ getCallback(inner)[i].parameters[1] = get(inner, i - 1).val
    /\ (ret.called /\ ret.renamed /\ ret.err = "nil")
         => \A i \in 1..Len(files[pathIno]) :
              /\ files[pathIno][i].kind = "rec"
              /\ files[pathIno][i].Key = _append

\* A Push whose add compacted a list of three values, the first and the
\* last different: the file at the path is the one compaction wrote.
C28_Witness ==
  /\ alive
  /\ ret.op = "Push"
  /\ ret.called
  /\ ret.renamed
  /\ ret.err = "nil"
  /\ inner.length = 3
  /\ get(inner, 0).val # get(inner, 2).val

\* C29: NewLinkedList on the log's path runs replay, and compact() when the
\* replay of the file's records meets no error, before it returns; and a
\* replay that returns no error has run compact().
C29_ConstructionReplaysAndCompacts ==
  [][/\ (/\ ret'.op = "NewLinkedList"
          /\ ret'.arg \in {OpenArg(LogPath, "rw-")}
          /\ ~ret'.crashed)
          => /\ ~ret'.panic
             /\ \A r \in {ReplayLoop(NewInMemLinkedList, files[pathIno], 1,
                                      getOperationsMap)} :
                  /\ (r.err = "nil" /\ ~r.panic /\ ~r.over) => ret'.called
                  /\ r.err # "nil" => (ret'.err = r.err /\ ~ret'.called)
     /\ (ret'.op = "replay" /\ ret'.err = "nil" /\ ~ret'.panic)
          => ret'.called]_vars

LoggedRecord(r) ==
  IF r.op = "Pop" THEN marshal(newOperation(_pop, <<>>)).m
  ELSE marshal(newOperation(IF r.op = "Append" THEN _append ELSE _push,
                            <<r.arg>>)).m

C33_CompactFailureIsReturned ==
  (ret.called /\ ~ret.crashed /\ ret.err = "nil")
    => /\ ret.renamed
       /\ ret.fullOk
       /\ files[pathIno] = ret.full

\* C34: when the loop of replay stops at a record with an error (decode
\* error, unknown key, apply error), replay returns that error, the list is
\* what applying the records before that one leaves, compact() has not run
\* and the files are as they were.
C34_FailedReplayStopsAndKeepsFile ==
  [][ret'.op = "replay"
       => \A r \in {ReplayLoop(inner, files[log.file.ino], log.file.off + 1,
                                getOperationsMap)} :
            (r.err # "nil" /\ ~r.panic /\ ~r.over)
              => /\ ret'.err = r.err
                 /\ ~ret'.panic
                 /\ ~ret'.called
                 /\ files' = files
                 /\ pathIno' = pathIno
                 /\ inner' = ReplayLoop(inner,
                                        SubSeq(files[log.file.ino], 1, r.at - 1),
                                        log.file.off + 1, getOperationsMap).list]_vars

\* A replay has stopped with an error at the second of three records: the
\* first is applied, the third is not.
C34_Witness ==
  /\ ret.op = "replay"
  /\ ret.err # "nil"
  /\ Len(files[pathIno]) = 3
  /\ inner.length = 1
  /\ files[pathIno][3] = Rec(_append, <<>>)

\* C35: when the parameter of the operation of an Append or Push cannot be
\* marshalled, add returns the marshalling error, writes nothing to any
\* file, does not run compact() and leaves the log, its threshold included,
\* as it was.
C35_MarshalFailureWritesNothing ==
  [][(ret'.op \in {"Append", "Push"} /\ marshaler(ret'.arg).err # "nil")
       => /\ ret'.err = marshal(newOperation(_append, <<ret'.arg>>)).err
          /\ ret'.err # "nil"
          /\ ~ret'.wrote
          /\ ~ret'.called
          /\ files' = files
          /\ pathIno' = pathIno
          /\ log' = log]_vars

\* An Append of a channel on a log whose handle is writable has returned
\* the marshalling error.
C35_Witness ==
  /\ ret.op = "Append"
  /\ ret.arg = ChanVal
  /\ ret.err = "UnsupportedTypeError"
  /\ log.file.mode = O_APPEND
  /\ Len(files[log.file.ino]) > 0

\* C36: across the add, replay and compact calls on a log, compactThreshold
\* keeps its value or is doubled, stays positive, and changes only in a
\* call whose add ran compact() through compactIfNecessary.
C36_ThresholdNeverDecreases ==
  [][(alive' /\ ret'.op \in {"Append", "Push", "Pop", "replay"})
       => /\ log'.compactThreshold \in {log.compactThreshold,
                                         log.compactThreshold * 2}
          /\ log'.compactThreshold > 0
          /\ log'.compactThreshold # log.compactThreshold
               => (ret'.called /\ ret'.wrote /\ ret'.op # "replay")]_vars

\* The threshold of a log has been doubled twice.
C36_Witness ==
  /\ alive
  /\ log.compactThreshold = initialCompactionThreshold * 4
  /\ ret.called

\* C37: a Get, Length or Iterator call leaves every file, the path, the log
\* (handle, offset and threshold) and the in-memory list as they were, and
\* runs neither a write nor compact().
C37_ReadsChangeNothing ==
  [][ret'.op \in {"Get", "Length", "Iterator"}
       => /\ files' = files
          /\ pathIno' = pathIno
          /\ tmpNames' = tmpNames
          /\ log' = log
          /\ inner' = inner
          /\ ~ret'.wrote
          /\ ~ret'.called
          /\ ret'.err = "nil"]_vars

\* Get has returned an element of a list whose log has a writable handle
\* and a file of two records.
C37_Witness ==
  /\ ret.op = "Get"
  /\ ret.val # NilVal
  /\ log.file.mode = O_APPEND
  /\ Len(files[pathIno]) = 2
  /\ inner.length > 0

\* C38: a call in which compact() ran and returned nil leaves no temporary
\* file of its own: no more temporary names exist after the call than before
\* it, the file at the log's path is under no temporary name, and when the
\* rename took place the file at the path is the compacted file that was
\* written under the temporary name.
C38_NoTemporaryFileAfterSuccess ==
  [][(ret'.called /\ ~ret'.crashed /\ ret'.err = "nil")
       => /\ Cardinality(tmpNames') <= Cardinality(tmpNames)
          /\ pathIno' \notin tmpNames'
          /\ ret'.renamed => files'[pathIno'] = ret'.full]_vars

\* A successful Append compacted and renamed a temporary file of three
\* records onto the path; no temporary name is left.
C38_Witness ==
  /\ ret.op = "Append" /\ ret.called /\ ret.renamed /\ ret.err = "nil"
  /\ ~ret.crashed /\ Len(files[pathIno]) = 3 /\ tmpNames = {}

====
